---- MODULE Spec2Model ----
(***************************************************************************)
(* Model of the request-execution engine of the Promptella SDK:            *)
(* HttpClient.request (sdk/src/http-client.ts) with its retry loop, its    *)
(* catch handler, the event emission, cancel(), and the error taxonomy of  *)
(* src/errors.ts (createErrorFromResponse).                                *)
(*                                                                         *)
(* A logical call is a record; the suspension points of the async method   *)
(* (the race of fetch against the deadline timer, and the backoff sleep)   *)
(* are the values of its pc.  Each action runs the code from one           *)
(* suspension point to the next, or to the return / throw.                 *)
(*                                                                         *)
(* Around it: the handler registry (on / off / emit), the construction of  *)
(* PromptellaSDK with both validateConfig methods, and enhancePrompt with  *)
(* its input validation.  Each has a specification of its own: Spec,       *)
(* SpecEvents, SpecConfig, SpecEnhance.  SpecConcurrent runs two calls on   *)
(* one instance, SpecLive is Spec with the timers of the runtime firing,   *)
(* and SpecFrame follows the objects the configuration lives in (heap).    *)
(* SpecResources adds the timers and fetches a call leaves behind, and     *)
(* SpecReentrant the handlers that change the registry while they run.     *)
(***************************************************************************)
EXTENDS Integers, Sequences, FiniteSets

VARIABLES calls, aborted, eventHandlers, lastOp, instance, heap

vars == <<calls, aborted, eventHandlers, lastOp, instance, heap>>

----------------------------------------------------------------------------
(* Bounds of the model *)

\* largest value of the retries option that is explored (the smallest is -1)
MaxRetries == 2

\* values of the retryDelay option (ms)
RetryDelays == {500, 1000}

\* HTTP statuses the transport may deliver
Statuses == {200, 400, 401, 404, 429, 500, 503}

\* values of the retries option: the code accepts any number, also negative
RetriesValues == (0 - 1) .. MaxRetries

----------------------------------------------------------------------------
(* Numbers *)

\* parseInt of a non-numeric string; no other number of the model is negative
NaN == 0 - 1

\* Retry-After defaults to '60' seconds when the header is absent or empty
DefaultRetryAfter == 60

RECURSIVE Pow2(_)
\* Math.pow(2, n) for the non-negative attempt indices of the loop
Pow2(n) == IF n <= 0 THEN 1 ELSE 2 * Pow2(n - 1)

\* Math.max(a, b): NaN when either argument is NaN
MathMax(a, b) == IF a = NaN \/ b = NaN THEN NaN ELSE IF a >= b THEN a ELSE b

\* x * 1000 in IEEE arithmetic: NaN stays NaN
TimesThousand(x) == IF x = NaN THEN NaN ELSE x * 1000

----------------------------------------------------------------------------
(* Responses and attempt outcomes *)

\* Retry-After header of a response: absent, a decimal number of seconds, or
\* text that parseInt cannot read (an HTTP-date)
RetryAfterHeaders == {"absent", "0", "2", "date"}

\* A response: status, whether the body parses as JSON, Retry-After header.
\* The code reads Retry-After only when status = 429, so only 429 responses
\* carry the header here.
Responses ==
    [status : Statuses \ {429}, json : BOOLEAN, retryAfter : {"absent"}]
    \cup [status : {429}, json : BOOLEAN, retryAfter : RetryAfterHeaders]

NoResponse == [status |-> 0, json |-> FALSE, retryAfter |-> "absent"]

\* Response.ok
Ok(response) == response.status >= 200 /\ response.status <= 299

\* parseInt(response.headers.get('Retry-After') || '60', 10)
ParseRetryAfter(response) ==
    CASE response.retryAfter = "absent" -> DefaultRetryAfter
      [] response.retryAfter = "0" -> 0
      [] response.retryAfter = "2" -> 2
      [] OTHER -> NaN

\* how the race of fetch against the deadline timer can end
Outcome(kind, response) == [kind |-> kind, response |-> response]

----------------------------------------------------------------------------
(* Error taxonomy (src/errors.ts) *)

\* An error object: name, code, statusCode; id is the attempt index at which
\* the object was constructed, which tells two objects apart.
Err(name, code, statusCode, id) ==
    [name |-> name, code |-> code, statusCode |-> statusCode, id |-> id]

NoError == Err("none", "none", 0, 0 - 1)

AuthenticationError(id) == Err("AuthenticationError", "AUTHENTICATION_ERROR", 401, id)
RateLimitError(id) == Err("RateLimitError", "RATE_LIMIT_ERROR", 429, id)
ValidationError(id) == Err("ValidationError", "VALIDATION_ERROR", 400, id)
NetworkError(statusCode, id) == Err("NetworkError", "NETWORK_ERROR", statusCode, id)
TimeoutError(id) == Err("TimeoutError", "TIMEOUT_ERROR", 408, id)

\* what fetch rejects with on a transport failure: a TypeError ("fetch failed")
TransportTypeError(id) == Err("TypeError", "none", 0, id)
\* what fetch rejects with when the signal is aborted: a DOMException
AbortError(id) == Err("AbortError", "none", 0, id)
\* what response.json() rejects with when a body is not JSON
SyntaxError(id) == Err("SyntaxError", "none", 0, id)
\* new Error('Maximum retries exceeded')
MaxRetriesExceeded == Err("Error", "none", 0, 0 - 1)

\* the six kinds of the taxonomy, by class name
TaxonomyNames ==
    {"AuthenticationError", "RateLimitError", "ValidationError",
     "NetworkError", "TimeoutError", "ConfigurationError"}

\* a mapping by status that never looks at the body
createErrorFromResponseByStatus(response, id) ==
    CASE response.status = 401 -> AuthenticationError(id)
      [] response.status = 429 -> RateLimitError(id)
      [] response.status = 400 -> ValidationError(id)
      [] OTHER -> NetworkError(response.status, id)

\* createErrorFromResponse(response, requestStartTime)
createErrorFromResponse(response, id) ==
    IF response.json
    THEN CASE response.status = 401 -> AuthenticationError(id)
           [] response.status = 429 -> RateLimitError(id)
           [] response.status = 400 -> ValidationError(id)
           [] OTHER -> NetworkError(response.status, id)
    ELSE NetworkError(response.status, id)

\* error.message?.includes('fetch'): of the errors that reach the catch
\* block only the transport TypeError ("fetch failed") has such a message
MessageIncludesFetch(error) == error.name = "TypeError"

----------------------------------------------------------------------------
(* Events (SDKEvents) *)

\* One emitted event.  at is the loop's attempt index at the emission
\* (-1 before the loop); the other fields are the payload, unused ones blank.
Ev(name, at, error, status, delay, retryAfter, attemptNo, maxAttempts) ==
    [name |-> name, at |-> at, error |-> error, status |-> status,
     delay |-> delay, retryAfter |-> retryAfter,
     attemptNo |-> attemptNo, maxAttempts |-> maxAttempts]

\* emit('request', { url, method, headers })
RequestEvent == Ev("request", 0 - 1, NoError, 0, 0, 0, 0, 0)

\* emit('error', { error, duration })
ErrorEvent(s, error) == Ev("error", s.attempt, error, 0, 0, 0, 0, 0)

\* emit('response', { status, data, duration })
ResponseEvent(s, response) ==
    Ev("response", s.attempt, NoError, response.status, 0, 0, 0, 0)

\* emit('rateLimit', { limits, retryAfter: retryAfter / 1000 })
RateLimitEvent(s, retryAfterMs) ==
    Ev("rateLimit", s.attempt, NoError, 0, 0,
       IF retryAfterMs = NaN THEN NaN ELSE retryAfterMs \div 1000, 0, 0)

\* a retry event that carries the loop index as it is
RetryEventZeroBased(s, delay) ==
    Ev("retry", s.attempt, NoError, 0, delay, 0, s.attempt, s.retries + 1)

\* emit('retry', { attempt: attempt + 1, maxAttempts: retries + 1, delay })
RetryEvent(s, delay) ==
    Ev("retry", s.attempt, NoError, 0, delay, 0, s.attempt + 1, s.retries + 1)

----------------------------------------------------------------------------
(* Listener registry: on, off and the handler loop of emit *)

\* largest number of handlers registered for one event name
MaxHandlers == 3

\* SDKEventName
EventNames == {"request", "response", "error", "rateLimit", "retry"}

\* the handler functions a caller registers; handler 2 raises when invoked
HandlerIds == {1, 2}
ThrowingHandlers == {2}

\* eventHandlers = new Map(): a name without an entry has no handler
NoHandlers == [name \in EventNames |-> <<>>]

\* on(event, handler): handlers.push(handler)
on(handlers, event, handler) ==
    [handlers EXCEPT ![event] = Append(@, handler)]

RECURSIVE IndexOfFrom(_, _, _)
IndexOfFrom(hs, h, i) ==
    IF i > Len(hs) THEN 0
    ELSE IF hs[i] = h THEN i
    ELSE IndexOfFrom(hs, h, i + 1)

\* handlers.indexOf(handler), with positions from 1 and 0 for "not found"
IndexOf(hs, h) == IndexOfFrom(hs, h, 1)

\* handlers.splice(index, 1)
Splice(hs, index) == SubSeq(hs, 1, index - 1) \o SubSeq(hs, index + 1, Len(hs))

\* an off that removes every occurrence of the handler
offAll(handlers, event, handler) ==
    [handlers EXCEPT ![event] = SelectSeq(@, LAMBDA h : h # handler)]

\* off(event, handler): remove the first occurrence, if there is one
off(handlers, event, handler) ==
    LET index == IndexOf(handlers[event], handler)
    IN  IF index > 0
        THEN [handlers EXCEPT ![event] = Splice(@, index)]
        ELSE handlers

\* a handler loop without the try/catch: the first handler that raises
\* ends the loop
InvokeHandlersUnguarded(hs) ==
    LET throwing == {i \in DOMAIN hs : hs[i] \in ThrowingHandlers}
        last == IF throwing = {} THEN Len(hs)
                ELSE CHOOSE i \in throwing : \A j \in throwing : i <= j
    IN  [i \in 1 .. last |-> [handler |-> hs[i], threw |-> hs[i] \in ThrowingHandlers]]

\* handlers.forEach(handler => { try { handler(data) } catch { ... } }):
\* the handlers invoked, in order, and whether each raised
InvokeHandlers(hs) ==
    [i \in DOMAIN hs |-> [handler |-> hs[i], threw |-> hs[i] \in ThrowingHandlers]]

\* one run of emit(name, data): the handlers registered for the name when it
\* ran and the invocations it made
Emission(name) ==
    [name |-> name, registered |-> eventHandlers[name],
     called |-> InvokeHandlers(eventHandlers[name])]

\* the last call of on / off, with the registry it was applied to
RegistryOp(op, event, handler, before) ==
    [op |-> op, event |-> event, handler |-> handler, before |-> before]

NoRegistryOp == RegistryOp("none", "request", 0, NoHandlers)

\* an abort that flips the signal
abortToggle(signalAborted) == ~signalAborted

\* AbortController.abort(): the signal is aborted from now on
abort(signalAborted) == TRUE

----------------------------------------------------------------------------
(* One logical call of HttpClient.request *)

\* the arguments of enhancePrompt, for a call that was not made through it
NoPrompt == [length |-> 0, whitespace |-> 0]
NoOptions ==
    [maxSuggestions |-> [given |-> FALSE, value |-> 0],
     categories |-> [given |-> FALSE, items |-> {}]]

NoResult == [kind |-> "none", error |-> NoError, data |-> 0 - 1]

\* A call that has not been made yet.  fetches counts the physical attempts
\* (calls of fetch); events, sleeps and outcomes record what the call emitted,
\* slept and got from the transport, in order.
IdleCall ==
    [pc |-> "idle", retries |-> 0, retryDelay |-> 0, attempt |-> 0,
     fetches |-> 0, events |-> <<>>, sleeps |-> <<>>, outcomes |-> <<>>,
     result |-> NoResult, emissions |-> <<>>, op |-> "none",
     prompt |-> NoPrompt, options |-> NoOptions, inflight |-> 0, timers |-> 0]

\* this.emit(event, data), with the call's record of it
Emit(s, e) ==
    [s EXCEPT !.events = Append(@, e),
              !.emissions = Append(@, Emission(e.name))]

\* an error that is swallowed: the promise of the call never settles
RaiseSwallowed(s, error) ==
    [s EXCEPT !.pc = "pending",
              !.result = [kind |-> "raised", error |-> error, data |-> 0 - 1]]

\* throw error, out of request
Raise(s, error) ==
    [s EXCEPT !.pc = "raised",
              !.result = [kind |-> "raised", error |-> error, data |-> 0 - 1]]

\* return data: the decoded body of the response of the current attempt
Return(s) ==
    [s EXCEPT !.pc = "returned",
              !.result = [kind |-> "returned", error |-> NoError, data |-> s.attempt]]

\* a sleep that is not awaited: the loop goes on to the next attempt at once
SleepNotAwaited(s, delay) ==
    LET s1 == [s EXCEPT !.sleeps = Append(@, delay), !.attempt = @ + 1]
    IN  [s1 EXCEPT !.pc = "fetching", !.fetches = @ + 1, !.inflight = @ + 1,
                   !.timers = @ + 1]

\* await this.sleep(delay); continue
Sleep(s, delay) == [s EXCEPT !.pc = "sleeping", !.sleeps = Append(@, delay)]

\* fetch(url, {...}) raced against the deadline timer
StartAttempt(s) ==
    [s EXCEPT !.pc = "fetching", !.fetches = @ + 1, !.inflight = @ + 1,
              !.timers = @ + 1]

\* a backoff whose exponent is one too large
BackoffOffByOne(retryDelay, attempt) == retryDelay * Pow2(attempt + 1)

\* a backoff whose exponent is an attempt counter kept on the instance and
\* so shared by the calls in progress
BackoffInstanceAttempt(retryDelay, attempt) ==
    LET attempts == {calls[d].attempt : d \in DOMAIN calls}
    IN  retryDelay * Pow2(CHOOSE a \in attempts : \A b \in attempts : b <= a)

\* retryDelay * Math.pow(2, attempt)
Backoff(retryDelay, attempt) == retryDelay * Pow2(attempt)

\* a rate-limit delay that forgets the Retry-After floor
RateLimitDelayNoFloor(retryAfterMs, retryDelay, attempt) ==
    retryDelay * Pow2(attempt)

\* Math.max(retryAfter, retryDelay * Math.pow(2, attempt))
RateLimitDelay(retryAfterMs, retryDelay, attempt) ==
    MathMax(retryAfterMs, Backoff(retryDelay, attempt))

\* the errors the catch block never retries
IsNonRetryable(error) ==
    \/ error.code = "AUTHENTICATION_ERROR"
    \/ error.code = "VALIDATION_ERROR"
    \/ error.name = "AbortError"

\* a retry test that knows the NetworkError class only
IsNetworkErrorOnly(error) == error.name = "NetworkError"

\* a retry test that also lets a timeout through
IsNetworkFailureOrTimeout(error) ==
    \/ error.name = "NetworkError"
    \/ error.name = "TypeError"
    \/ error.name = "TimeoutError"

\* the errors the catch block retries while attempts remain
IsNetworkFailure(error) ==
    \/ error.name = "NetworkError"
    \/ error.name = "TypeError"
    \/ MessageIncludesFetch(error)

\* a catch block that also retries on the last allowed attempt
CatchBlockRetryOnLast(s, error) ==
    IF IsNonRetryable(error)
    THEN Raise(Emit(s, ErrorEvent(s, error)), error)
    ELSE IF s.attempt <= s.retries /\ IsNetworkFailure(error)
    THEN LET delay == Backoff(s.retryDelay, s.attempt)
         IN  Sleep(Emit(s, RetryEvent(s, delay)), delay)
    ELSE Raise(Emit(s, ErrorEvent(s, error)), error)

\* a catch block that retries whatever error it receives
CatchBlockRetryAll(s, error) ==
    IF s.attempt < s.retries
    THEN LET delay == Backoff(s.retryDelay, s.attempt)
         IN  Sleep(Emit(s, RetryEvent(s, delay)), delay)
    ELSE Raise(Emit(s, ErrorEvent(s, error)), error)

\* catch (error) { ... } of the loop body
CatchBlock(s, error) ==
    IF IsNonRetryable(error)
    THEN Raise(Emit(s, ErrorEvent(s, error)), error)
    ELSE IF s.attempt < s.retries /\ IsNetworkFailure(error)
    THEN LET delay == Backoff(s.retryDelay, s.attempt)
         IN  Sleep(Emit(s, RetryEvent(s, delay)), delay)
    ELSE Raise(Emit(s, ErrorEvent(s, error)), error)

\* an error branch that never tells the listeners about the rate limit
OnErrorResponseSilent(s, response) ==
    LET error == createErrorFromResponse(response, s.attempt)
        s1 == Emit(s, ErrorEvent(s, error))
    IN  IF response.status = 429 /\ s.attempt < s.retries
        THEN LET retryAfterMs == TimesThousand(ParseRetryAfter(response))
                 delay == RateLimitDelay(retryAfterMs, s.retryDelay, s.attempt)
             IN  Sleep(Emit(s1, RetryEvent(s1, delay)), delay)
        ELSE IF response.status >= 500 /\ s.attempt < s.retries
        THEN LET delay == Backoff(s.retryDelay, s.attempt)
             IN  Sleep(Emit(s1, RetryEvent(s1, delay)), delay)
        ELSE CatchBlock(s1, error)

\* if (!response.ok) { ... throw error }: the throw is inside the try, so
\* the catch block of the same iteration receives it
OnErrorResponse(s, response) ==
    LET error == createErrorFromResponse(response, s.attempt)
        s1 == Emit(s, ErrorEvent(s, error))
    IN  IF response.status = 429 /\ s.attempt < s.retries
        THEN LET retryAfterMs == TimesThousand(ParseRetryAfter(response))
                 s2 == Emit(s1, RateLimitEvent(s1, retryAfterMs))
                 delay == RateLimitDelay(retryAfterMs, s.retryDelay, s.attempt)
             IN  Sleep(Emit(s2, RetryEvent(s2, delay)), delay)
        ELSE IF response.status >= 500 /\ s.attempt < s.retries
        THEN LET delay == Backoff(s.retryDelay, s.attempt)
             IN  Sleep(Emit(s1, RetryEvent(s1, delay)), delay)
        ELSE CatchBlock(s1, error)

\* const data = await response.json(); emit('response'); return data
OnSuccessResponse(s, response) ==
    IF response.json
    THEN Return(Emit(s, ResponseEvent(s, response)))
    ELSE CatchBlock(s, SyntaxError(s.attempt))

\* the try block after the race resolved with a response
OnResponse(s, response) ==
    IF Ok(response) THEN OnSuccessResponse(s, response)
    ELSE OnErrorResponse(s, response)

\* the outcome of the race, recorded on the call
Observe(s, kind, response) ==
    [s EXCEPT !.outcomes = Append(@, Outcome(kind, response)),
              !.inflight = IF kind = "timeout" THEN @ ELSE @ - 1,
              !.timers = IF kind = "timeout" THEN @ - 1 ELSE @]

----------------------------------------------------------------------------
(* Actions *)

CallIds == {1}

\* The objects the configuration lives in.  A config object holds its
\* primitive fields by value (timeout stands for them: apiKey, projectId,
\* baseUrl and debug are copied by the same spread) and its headers map by
\* reference.
ConfigRefs == {"caller", "instance", "returned", "sdkReturned"}
HeaderRefs == {"caller", "default"}
HeaderNames == {"X-Trace", "Authorization"}
FixedHeaderNames == {"Content-Type", "Authorization", "X-Project-ID", "User-Agent"}
FrameTimeouts == {1000, 30000}

NoObject == [exists |-> FALSE, timeout |-> 0, headers |-> "absent"]
NoUse == [made |-> FALSE, timeout |-> 0, headers |-> {}, sent |-> <<>>]

NoHeap ==
    [configs |-> [r \in ConfigRefs |-> NoObject],
     headers |-> [r \in HeaderRefs |-> {}],
     built |-> NoUse, used |-> NoUse]

NoInstance == [phase |-> "none", config |-> <<>>, error |-> "none", effective |-> <<>>]

Init ==
    /\ calls = [c \in CallIds |-> IdleCall]
    /\ aborted = FALSE
    /\ eventHandlers = NoHandlers
    /\ lastOp = NoRegistryOp
    /\ instance = NoInstance
    /\ heap = NoHeap

\* request(method, path, body, { retries, retryDelay }) up to the first
\* fetch; with retries < 0 the loop body never runs
RequestStart(s, retries, retryDelay) ==
    LET s0 == [s EXCEPT !.retries = retries,
                        !.retryDelay = retryDelay, !.attempt = 0]
        s1 == Emit(s0, RequestEvent)
    IN  IF 0 <= retries THEN StartAttempt(s1)
        ELSE Raise(s1, MaxRetriesExceeded)

\* a direct call of HttpClient.request
Request(c, retries, retryDelay) ==
    /\ calls[c].pc = "idle"
    /\ calls' = [calls EXCEPT ![c] =
                    RequestStart([calls[c] EXCEPT !.op = "request"], retries, retryDelay)]
    /\ UNCHANGED <<aborted, eventHandlers, lastOp, instance, heap>>

\* fetch resolves with a response before the deadline
FetchResolves(c, response) ==
    /\ calls[c].pc = "fetching"
    /\ ~aborted
    /\ calls' = [calls EXCEPT ![c] =
                    OnResponse(Observe(calls[c], "response", response), response)]
    /\ UNCHANGED <<aborted, eventHandlers, lastOp, instance, heap>>

\* the deadline timer rejects with a TimeoutError before fetch settles
DeadlineFires(c) ==
    /\ calls[c].pc = "fetching"
    /\ LET s == Observe(calls[c], "timeout", NoResponse)
       IN  calls' = [calls EXCEPT ![c] = CatchBlock(s, TimeoutError(s.attempt))]
    /\ UNCHANGED <<aborted, eventHandlers, lastOp, instance, heap>>

\* fetch rejects with a TypeError: connection refused, DNS failure, ...
TransportFails(c) ==
    /\ calls[c].pc = "fetching"
    /\ ~aborted
    /\ LET s == Observe(calls[c], "transport", NoResponse)
       IN  calls' = [calls EXCEPT ![c] = CatchBlock(s, TransportTypeError(s.attempt))]
    /\ UNCHANGED <<aborted, eventHandlers, lastOp, instance, heap>>

\* fetch rejects with an AbortError because the shared signal is aborted
FetchAborted(c) ==
    /\ calls[c].pc = "fetching"
    /\ aborted
    /\ LET s == Observe(calls[c], "abort", NoResponse)
       IN  calls' = [calls EXCEPT ![c] = CatchBlock(s, AbortError(s.attempt))]
    /\ UNCHANGED <<aborted, eventHandlers, lastOp, instance, heap>>

\* fetch resolves with a response and cancel() is invoked while its body is
\* being read (await response.json()): the read rejects with an AbortError.
\* createErrorFromResponse swallows the rejection like a body that is not
\* JSON; the read of a success body rejects into the catch block.
CancelDuringBodyRead(c, response) ==
    /\ calls[c].pc = "fetching"
    /\ ~aborted
    /\ aborted' = abort(aborted)
    /\ LET s == Observe(calls[c], "bodyabort", response)
       IN  calls' = [calls EXCEPT ![c] =
                        IF Ok(response) THEN CatchBlock(s, AbortError(s.attempt))
                        ELSE OnErrorResponse(s, [response EXCEPT !.json = FALSE])]
    /\ UNCHANGED <<eventHandlers, lastOp, instance, heap>>

\* the backoff sleep ends: attempt++, loop test, next fetch
SleepElapses(c) ==
    /\ calls[c].pc = "sleeping"
    /\ LET s == [calls[c] EXCEPT !.attempt = @ + 1]
       IN  calls' = [calls EXCEPT ![c] =
                        IF s.attempt <= s.retries THEN StartAttempt(s)
                        ELSE Raise(s, MaxRetriesExceeded)]
    /\ UNCHANGED <<aborted, eventHandlers, lastOp, instance, heap>>

\* cancel(): this.abortController.abort()
Cancel ==
    /\ aborted' = abort(aborted)
    /\ UNCHANGED <<calls, eventHandlers, lastOp, instance, heap>>

Next ==
    \/ \E c \in DOMAIN calls, retries \in RetriesValues, retryDelay \in RetryDelays :
          Request(c, retries, retryDelay)
    \/ \E c \in DOMAIN calls, response \in Responses : FetchResolves(c, response)
    \/ \E c \in DOMAIN calls : DeadlineFires(c)
    \/ \E c \in DOMAIN calls : TransportFails(c)
    \/ \E c \in DOMAIN calls : FetchAborted(c)
    \/ \E c \in DOMAIN calls : SleepElapses(c)
    \/ \E c \in DOMAIN calls, response \in Responses : CancelDuringBodyRead(c, response)
    \/ Cancel

Spec == Init /\ [][Next]_vars

\* the race of fetch against the deadline timer settles: the timer is a
\* setTimeout that nothing clears, so one of the two always does
RaceSettles(c) ==
    \/ \E response \in Responses : FetchResolves(c, response)
    \/ DeadlineFires(c)
    \/ TransportFails(c)
    \/ FetchAborted(c)

\* Spec with the timers of the runtime firing: every race settles and every
\* sleep elapses
SpecLive ==
    /\ Init
    /\ [][Next]_vars
    /\ \A c \in CallIds : WF_vars(RaceSettles(c)) /\ WF_vars(SleepElapses(c))

----------------------------------------------------------------------------
(* The listener registry with calls that emit: handlers are registered and
   removed between calls, then calls run and emit to them *)

\* on(event, handler)
On(event, handler) ==
    /\ Len(eventHandlers[event]) < MaxHandlers
    /\ eventHandlers' = on(eventHandlers, event, handler)
    /\ lastOp' = RegistryOp("on", event, handler, eventHandlers)
    /\ UNCHANGED <<calls, aborted, instance, heap>>

\* off(event, handler)
Off(event, handler) ==
    /\ eventHandlers' = off(eventHandlers, event, handler)
    /\ lastOp' = RegistryOp("off", event, handler, eventHandlers)
    /\ UNCHANGED <<calls, aborted, instance, heap>>

\* no call has started yet
AllIdle == \A c \in DOMAIN calls : calls[c].pc = "idle"

\* the event names handlers are registered for, and the inputs of the calls
RegisteredNames == {"request", "error"}
EventRetries == {0, 1}
EventResponses ==
    {[status |-> 200, json |-> TRUE, retryAfter |-> "absent"],
     [status |-> 500, json |-> TRUE, retryAfter |-> "absent"],
     [status |-> 401, json |-> TRUE, retryAfter |-> "absent"]}

NextEvents ==
    \/ \E event \in RegisteredNames, handler \in HandlerIds :
          AllIdle /\ On(event, handler)
    \/ \E event \in RegisteredNames, handler \in HandlerIds :
          AllIdle /\ Off(event, handler)
    \/ \E c \in DOMAIN calls, retries \in EventRetries : Request(c, retries, 1000)
    \/ \E c \in DOMAIN calls, response \in EventResponses : FetchResolves(c, response)
    \/ \E c \in DOMAIN calls : TransportFails(c)
    \/ \E c \in DOMAIN calls : SleepElapses(c)

SpecEvents == Init /\ [][NextEvents]_vars

----------------------------------------------------------------------------
(* Construction: PromptellaSDK.validateConfig, then the HttpClient
   constructor with its own validateConfig *)

\* /^sk_(live|test)_[a-zA-Z0-9]{32}$/ and /^proj_[a-zA-Z0-9]{24}$/
KeyTailLength == 32
ProjectTailLength == 24

\* timeout bounds of PromptellaSDK.validateConfig, default of HttpClient
MinTimeout == 1000
MaxTimeout == 300000
DefaultTimeout == 30000

\* A credential or project id: its prefix, the length of what follows and
\* whether that is all alphanumeric.  The empty string has prefix "".
Ident(prefix, tail, alnum) == [prefix |-> prefix, tail |-> tail, alnum |-> alnum]

ApiKeys ==
    {Ident("", 0, TRUE), Ident("sk_live_", 32, TRUE), Ident("sk_test_", 32, TRUE),
     Ident("sk_live_", 31, TRUE), Ident("sk_test_", 33, TRUE),
     Ident("sk_live_", 32, FALSE), Ident("sk_", 32, TRUE), Ident("pk_live_", 32, TRUE)}

ProjectIds ==
    {Ident("", 0, TRUE), Ident("proj_", 24, TRUE), Ident("proj_", 23, TRUE),
     Ident("proj_", 25, TRUE), Ident("proj_", 24, FALSE), Ident("project_", 24, TRUE)}

\* config.timeout: not given, or a number of milliseconds
Timeouts ==
    {[given |-> FALSE, ms |-> 0]}
    \cup [given : {TRUE}, ms : {0, 1, 999, 1000, 30000, 300000, 300001}]

\* config.baseUrl: not given, a well-formed absolute URL, or other text
BaseUrls == {"absent", "https://api.example.com", "not a url"}

Configs ==
    [apiKey : ApiKeys, projectId : ProjectIds, timeout : Timeouts, baseUrl : BaseUrls]

IsEmpty(ident) == ident.prefix = "" /\ ident.tail = 0

\* config.apiKey.match(/^sk_(live|test)_[a-zA-Z0-9]{32}$/)
MatchesApiKey(key) ==
    key.prefix \in {"sk_live_", "sk_test_"} /\ key.tail = KeyTailLength /\ key.alnum

\* config.projectId.match(/^proj_[a-zA-Z0-9]{24}$/)
MatchesProjectId(id) ==
    id.prefix = "proj_" /\ id.tail = ProjectTailLength /\ id.alnum

\* config.timeout && (config.timeout < 1000 || config.timeout > 300000):
\* 0 is falsy
TimeoutOutOfRange(timeout) ==
    /\ timeout.given
    /\ timeout.ms # 0
    /\ (timeout.ms < MinTimeout \/ timeout.ms > MaxTimeout)

\* PromptellaSDK.validateConfig: the class of the error thrown, or "none"
sdkValidateConfig(config) ==
    IF IsEmpty(config.apiKey) THEN "ConfigurationError"
    ELSE IF ~MatchesApiKey(config.apiKey) THEN "ConfigurationError"
    ELSE IF IsEmpty(config.projectId) THEN "ConfigurationError"
    ELSE IF ~MatchesProjectId(config.projectId) THEN "ConfigurationError"
    ELSE IF TimeoutOutOfRange(config.timeout) THEN "ConfigurationError"
    ELSE "none"

\* new URL(this.config.baseUrl) does not throw
ParsesAsUrl(baseUrl) == baseUrl \in {"https://promptella.ai", "https://api.example.com"}

\* the config of HttpClient: defaults, overridden by what was given
EffectiveConfig(config) ==
    [apiKey |-> config.apiKey, projectId |-> config.projectId,
     timeout |-> IF config.timeout.given THEN config.timeout.ms ELSE DefaultTimeout,
     baseUrl |-> IF config.baseUrl = "absent" THEN "https://promptella.ai"
                 ELSE config.baseUrl]

\* HttpClient.validateConfig: the class of the error thrown, or "none"
httpValidateConfig(effective) ==
    IF IsEmpty(effective.apiKey) \/ effective.apiKey.prefix \notin {"sk_live_", "sk_test_", "sk_"}
    THEN "Error"
    ELSE IF IsEmpty(effective.projectId) \/ effective.projectId.prefix # "proj_"
    THEN "Error"
    ELSE IF ~ParsesAsUrl(effective.baseUrl)
    THEN "Error"
    ELSE "none"

\* new PromptellaSDK(config)
Construct ==
    /\ instance.phase = "new"
    /\ LET config == instance.config
           first == sdkValidateConfig(config)
           second == httpValidateConfig(EffectiveConfig(config))
       IN  instance' =
              IF first # "none"
              THEN [instance EXCEPT !.phase = "failed", !.error = first]
              ELSE IF second # "none"
              THEN [instance EXCEPT !.phase = "failed", !.error = second]
              ELSE [instance EXCEPT !.phase = "constructed",
                                    !.effective = EffectiveConfig(config)]
    /\ UNCHANGED <<calls, aborted, eventHandlers, lastOp, heap>>

InitConfig ==
    /\ calls = [c \in CallIds |-> IdleCall]
    /\ aborted = FALSE
    /\ eventHandlers = NoHandlers
    /\ lastOp = NoRegistryOp
    /\ instance \in {[phase |-> "new", config |-> config, error |-> "none",
                       effective |-> <<>>] : config \in Configs}
    /\ heap = NoHeap

NextConfig == Construct

SpecConfig == InitConfig /\ [][NextConfig]_vars

----------------------------------------------------------------------------
(* PromptellaSDK.enhancePrompt: validation of the prompt and of the options,
   then HttpClient.request with retries 3 and retryDelay 1000 *)

PromptLimit == 5000
EnhanceRetries == 3
EnhanceRetryDelay == 1000
MinSuggestions == 1
MaxSuggestions == 10

\* A prompt: its length in characters and how many of them are leading or
\* trailing whitespace, which trim() removes.
PromptLengths == {0, 1, 2, 4999, 5000, 5001, 5002}

Prompts ==
    {p \in [length : PromptLengths, whitespace : {0, 1, 2}] : p.whitespace <= p.length}

\* prompt.trim().length
TrimLength(prompt) == prompt.length - prompt.whitespace

ValidCategories ==
    {"clarity", "specificity", "context", "structure", "examples", "constraints"}

EnhanceOptions ==
    [maxSuggestions : {[given |-> FALSE, value |-> 0]}
                        \cup [given : {TRUE}, value : {0 - 1, 0, 1, 10, 11}],
     categories : {[given |-> FALSE, items |-> {}]}
                        \cup [given : {TRUE}, items : SUBSET {"clarity", "tone"}]]

\* the prompt checks with the length taken after trimming
PromptInvalidAfterTrim(prompt) ==
    \/ prompt.length = 0
    \/ TrimLength(prompt) > PromptLimit
    \/ TrimLength(prompt) = 0

\* !prompt, prompt.length > 5000, prompt.trim().length === 0
PromptInvalid(prompt) ==
    \/ prompt.length = 0
    \/ prompt.length > PromptLimit
    \/ TrimLength(prompt) = 0

\* options.maxSuggestions && (... < 1 || ... > 10); invalid categories
OptionsInvalid(options) ==
    \/ /\ options.maxSuggestions.given
       /\ options.maxSuggestions.value # 0
       /\ \/ options.maxSuggestions.value < MinSuggestions
          \/ options.maxSuggestions.value > MaxSuggestions
    \/ /\ options.categories.given
       /\ options.categories.items \ ValidCategories # {}

\* an error made by the caller's own validation, before any attempt
Local == 0 - 1

\* an enhancePrompt that asks the executor for one retry more
enhancePromptExtraRetry(s, prompt, options) ==
    LET s0 == [s EXCEPT !.op = "enhancePrompt", !.prompt = prompt, !.options = options]
    IN  IF PromptInvalid(prompt) \/ OptionsInvalid(options)
        THEN Raise(s0, ValidationError(Local))
        ELSE RequestStart(s0, EnhanceRetries + 1, EnhanceRetryDelay)

enhancePrompt(s, prompt, options) ==
    LET s0 == [s EXCEPT !.op = "enhancePrompt", !.prompt = prompt, !.options = options]
    IN  IF PromptInvalid(prompt) \/ OptionsInvalid(options)
        THEN Raise(s0, ValidationError(Local))
        ELSE RequestStart(s0, EnhanceRetries, EnhanceRetryDelay)

EnhancePrompt(c, prompt, options) ==
    /\ calls[c].pc = "idle"
    /\ calls' = [calls EXCEPT ![c] = enhancePrompt(calls[c], prompt, options)]
    /\ UNCHANGED <<aborted, eventHandlers, lastOp, instance, heap>>

\* PromptellaSDK.testConnection: request with { retries: 1 } and the
\* default retryDelay of request
TestRetries == 1
DefaultRetryDelay == 1000

TestConnection(c) ==
    /\ calls[c].pc = "idle"
    /\ calls' = [calls EXCEPT ![c] =
                    RequestStart([calls[c] EXCEPT !.op = "testConnection"],
                                 TestRetries, DefaultRetryDelay)]
    /\ UNCHANGED <<aborted, eventHandlers, lastOp, instance, heap>>

EnhanceResponses ==
    {[status |-> 200, json |-> TRUE, retryAfter |-> "absent"],
     [status |-> 503, json |-> TRUE, retryAfter |-> "absent"],
     [status |-> 429, json |-> TRUE, retryAfter |-> "2"],
     [status |-> 404, json |-> FALSE, retryAfter |-> "absent"],
     [status |-> 401, json |-> TRUE, retryAfter |-> "absent"]}

NextEnhance ==
    \/ \E c \in DOMAIN calls, prompt \in Prompts, options \in EnhanceOptions :
          EnhancePrompt(c, prompt, options)
    \/ \E c \in DOMAIN calls : TestConnection(c)
    \/ \E c \in DOMAIN calls, response \in EnhanceResponses : FetchResolves(c, response)
    \/ \E c \in DOMAIN calls : DeadlineFires(c)
    \/ \E c \in DOMAIN calls : TransportFails(c)
    \/ \E c \in DOMAIN calls : SleepElapses(c)

SpecEnhance == Init /\ [][NextEnhance]_vars

----------------------------------------------------------------------------
(* Two logical calls in progress on one instance: they share the signal of
   the AbortController and nothing else that request writes *)

ConcurrentCallIds == {1, 2}
ConcurrentRetries == {0, 1}

ConcurrentResponses ==
    {[status |-> 200, json |-> TRUE, retryAfter |-> "absent"],
     [status |-> 500, json |-> TRUE, retryAfter |-> "absent"],
     [status |-> 429, json |-> TRUE, retryAfter |-> "2"],
     [status |-> 401, json |-> TRUE, retryAfter |-> "absent"]}

InitConcurrent ==
    /\ calls = [c \in ConcurrentCallIds |-> IdleCall]
    /\ aborted = FALSE
    /\ eventHandlers = NoHandlers
    /\ lastOp = NoRegistryOp
    /\ instance = NoInstance
    /\ heap = NoHeap

NextConcurrent ==
    \/ \E c \in DOMAIN calls, retries \in ConcurrentRetries, retryDelay \in RetryDelays :
          Request(c, retries, retryDelay)
    \/ \E c \in DOMAIN calls, response \in ConcurrentResponses : FetchResolves(c, response)
    \/ \E c \in DOMAIN calls : TransportFails(c)
    \/ \E c \in DOMAIN calls : FetchAborted(c)
    \/ \E c \in DOMAIN calls : SleepElapses(c)
    \/ Cancel

SpecConcurrent == InitConcurrent /\ [][NextConcurrent]_vars

----------------------------------------------------------------------------
(* The configuration held by an instance, the objects the caller keeps and
   the objects getConfig hands out *)

\* { 'Content-Type': ..., 'Authorization': ..., 'X-Project-ID': ...,
\*   'User-Agent': ..., ...this.config.headers }: the headers of the call by
\* name, each with where its value comes from; a later key of the literal
\* replaces an earlier one of the same name
BuildHeaders(extra) ==
    [name \in FixedHeaderNames \cup extra |->
        IF name \in extra THEN "configured" ELSE "fixed"]

\* what a request reads from this.config: timeout = this.config.timeout and
\* { ...fixed headers, ...this.config.headers }
ReadConfig(h) ==
    LET config == h.configs["instance"]
    IN  [made |-> TRUE, timeout |-> config.timeout,
         headers |-> h.headers[config.headers],
         sent |-> BuildHeaders(h.headers[config.headers])]

\* this.config = { baseUrl, timeout: 30000, debug, headers: {}, ...config }:
\* the fields of the caller's object, its headers map by reference
NewHttpClient ==
    /\ heap.configs["caller"].exists
    /\ ~heap.configs["instance"].exists
    /\ LET given == heap.configs["caller"]
           own == [exists |-> TRUE, timeout |-> given.timeout,
                   headers |-> IF given.headers = "absent" THEN "default"
                               ELSE given.headers]
           h1 == [heap EXCEPT !.configs["instance"] = own]
       IN  heap' = [h1 EXCEPT !.built = ReadConfig(h1)]
    /\ UNCHANGED <<calls, aborted, eventHandlers, lastOp, instance>>

\* HttpClient.getConfig(): return { ...this.config }
GetConfig ==
    /\ heap.configs["instance"].exists
    /\ heap' = [heap EXCEPT !.configs["returned"] = heap.configs["instance"]]
    /\ UNCHANGED <<calls, aborted, eventHandlers, lastOp, instance>>

\* PromptellaSDK.getConfig(): environment, baseUrl, timeout, debug only
SdkGetConfig ==
    /\ heap.configs["instance"].exists
    /\ heap' = [heap EXCEPT !.configs["sdkReturned"] =
                    [exists |-> TRUE, timeout |-> heap.configs["instance"].timeout,
                     headers |-> "absent"]]
    /\ UNCHANGED <<calls, aborted, eventHandlers, lastOp, instance>>

\* the caller assigns a field of an object it holds (Readonly<> is a
\* compile-time type only)
CallerSetsField(ref, timeout) ==
    /\ ref \in {"caller", "returned", "sdkReturned"}
    /\ heap.configs[ref].exists
    /\ heap' = [heap EXCEPT !.configs[ref].timeout = timeout]
    /\ UNCHANGED <<calls, aborted, eventHandlers, lastOp, instance>>

\* the caller adds or deletes an entry of a headers map it holds
CallerSetsHeader(ref, name) ==
    /\ ref \in {"caller", "returned"}
    /\ heap.configs[ref].exists
    /\ heap.configs[ref].headers # "absent"
    /\ LET map == heap.configs[ref].headers
       IN  heap' = [heap EXCEPT !.headers[map] =
                       IF name \in @ THEN @ \ {name} ELSE @ \cup {name}]
    /\ UNCHANGED <<calls, aborted, eventHandlers, lastOp, instance>>

\* request(...) on the instance: reads the configuration, then runs
FrameRequest(c) ==
    /\ heap.configs["instance"].exists
    /\ calls[c].pc = "idle"
    /\ calls' = [calls EXCEPT ![c] =
                    RequestStart([calls[c] EXCEPT !.op = "request"], 0, 1000)]
    /\ heap' = [heap EXCEPT !.used = ReadConfig(heap)]
    /\ UNCHANGED <<aborted, eventHandlers, lastOp, instance>>

CallerConfigs ==
    [exists : {TRUE}, timeout : FrameTimeouts, headers : {"absent", "caller"}]

InitFrame ==
    /\ calls = [c \in CallIds |-> IdleCall]
    /\ aborted = FALSE
    /\ eventHandlers = NoHandlers
    /\ lastOp = NoRegistryOp
    /\ instance = NoInstance
    /\ \E given \in CallerConfigs, map \in SUBSET HeaderNames :
          heap = [NoHeap EXCEPT !.configs["caller"] = given,
                                !.headers["caller"] =
                                    IF given.headers = "absent" THEN {} ELSE map]

NextFrame ==
    \/ NewHttpClient
    \/ GetConfig
    \/ SdkGetConfig
    \/ \E ref \in ConfigRefs, timeout \in FrameTimeouts : CallerSetsField(ref, timeout)
    \/ \E ref \in ConfigRefs, name \in HeaderNames : CallerSetsHeader(ref, name)
    \/ \E c \in DOMAIN calls : FrameRequest(c)
    \/ \E c \in DOMAIN calls : FetchResolves(c, [status |-> 200, json |-> TRUE,
                                                  retryAfter |-> "absent"])
    \/ On("request", 1)
    \/ Off("request", 1)
    \/ Cancel

SpecFrame == InitFrame /\ [][NextFrame]_vars

----------------------------------------------------------------------------
(* What a call leaves behind: the deadline timer of an attempt whose fetch
   settled first, and the fetch of an attempt whose deadline fired first *)

\* a deadline timer fires after its race was settled by the fetch: the
\* rejection has no listener left
LateTimerFires(c) ==
    /\ calls[c].timers > (IF calls[c].pc = "fetching" THEN 1 ELSE 0)
    /\ calls' = [calls EXCEPT ![c].timers = @ - 1]
    /\ UNCHANGED <<aborted, eventHandlers, lastOp, instance, heap>>

\* a fetch settles after its race was lost to the deadline: the result is
\* dropped
LateFetchSettles(c) ==
    /\ calls[c].inflight > (IF calls[c].pc = "fetching" THEN 1 ELSE 0)
    /\ calls' = [calls EXCEPT ![c].inflight = @ - 1]
    /\ UNCHANGED <<aborted, eventHandlers, lastOp, instance, heap>>

ResourceRetries == {0, 1, 2}

ResourceResponses ==
    {[status |-> 200, json |-> TRUE, retryAfter |-> "absent"],
     [status |-> 200, json |-> FALSE, retryAfter |-> "absent"],
     [status |-> 400, json |-> TRUE, retryAfter |-> "absent"],
     [status |-> 429, json |-> TRUE, retryAfter |-> "2"],
     [status |-> 500, json |-> TRUE, retryAfter |-> "absent"]}

NextResources ==
    \/ \E c \in DOMAIN calls, retries \in ResourceRetries, retryDelay \in RetryDelays :
          Request(c, retries, retryDelay)
    \/ \E c \in DOMAIN calls, response \in ResourceResponses : FetchResolves(c, response)
    \/ \E c \in DOMAIN calls : DeadlineFires(c)
    \/ \E c \in DOMAIN calls : TransportFails(c)
    \/ \E c \in DOMAIN calls : FetchAborted(c)
    \/ \E c \in DOMAIN calls : SleepElapses(c)
    \/ \E c \in DOMAIN calls : LateTimerFires(c)
    \/ \E c \in DOMAIN calls : LateFetchSettles(c)
    \/ Cancel

SpecResources == Init /\ [][NextResources]_vars

----------------------------------------------------------------------------
(* Handlers that change the registry while they are being called *)

\* 1 does nothing to the registry, 3 calls off(event, itself), 4 calls
\* on(event, 1)
ReentrantHandlerIds == {1, 3, 4}
SelfRemovingHandlers == {3}
RegisteringHandlers == {4}

\* what running handler h does to the array of its event
HandlerEffect(array, h) ==
    IF h \in SelfRemovingHandlers
    THEN LET index == IndexOf(array, h)
         IN  IF index > 0 THEN Splice(array, index) ELSE array
    ELSE IF h \in RegisteringHandlers THEN Append(array, 1)
    ELSE array

\* Array.prototype.forEach on the live array: the length is read once, an
\* index is visited when the array still has it, and each element is read
\* when its index comes up
RECURSIVE forEach(_, _, _, _)
forEach(array, index, length, called) ==
    IF index > length THEN [array |-> array, called |-> called]
    ELSE IF index > Len(array) THEN forEach(array, index + 1, length, called)
    ELSE LET h == array[index]
         IN  forEach(HandlerEffect(array, h), index + 1, length,
                     Append(called, [handler |-> h, threw |-> h \in ThrowingHandlers]))

\* request(...) up to its first fetch, with handlers of the request event
\* that may change the registry: emit('request', ...) runs them
ReentrantRequest(c) ==
    /\ calls[c].pc = "idle"
    /\ LET registered == eventHandlers["request"]
           run == forEach(registered, 1, Len(registered), <<>>)
           s0 == [calls[c] EXCEPT !.op = "request", !.retries = 0,
                                  !.retryDelay = DefaultRetryDelay, !.attempt = 0]
           s1 == [s0 EXCEPT !.events = Append(@, RequestEvent),
                            !.emissions = Append(@, [name |-> "request",
                                                     registered |-> registered,
                                                     called |-> run.called])]
       IN  /\ calls' = [calls EXCEPT ![c] = StartAttempt(s1)]
           /\ eventHandlers' = [eventHandlers EXCEPT !["request"] = run.array]
    /\ UNCHANGED <<aborted, lastOp, instance, heap>>

NextReentrant ==
    \/ \E handler \in ReentrantHandlerIds : AllIdle /\ On("request", handler)
    \/ \E handler \in ReentrantHandlerIds : AllIdle /\ Off("request", handler)
    \/ \E c \in DOMAIN calls : ReentrantRequest(c)
    \/ \E c \in DOMAIN calls :
          FetchResolves(c, [status |-> 200, json |-> TRUE, retryAfter |-> "absent"])

SpecReentrant == Init /\ [][NextReentrant]_vars

----------------------------------------------------------------------------
(* Vocabulary of the properties *)

\* the names of a sequence of events, without the rateLimit events
NamesIgnoringRateLimit(events) ==
    LET kept == SelectSeq(events, LAMBDA e : e.name # "rateLimit")
    IN  [i \in DOMAIN kept |-> kept[i].name]

\* request, k times (error, retry), then last
EventPattern(k, last) ==
    [i \in 1 .. (2 * k + 2) |->
        IF i = 1 THEN "request"
        ELSE IF i = 2 * k + 2 THEN last
        ELSE IF i % 2 = 0 THEN "error" ELSE "retry"]

\* the positions of the events named name that attempt index a emitted
EventsOf(s, a, name) ==
    {i \in DOMAIN s.events : s.events[i].at = a /\ s.events[i].name = name}

RetryEvents(s) == {i \in DOMAIN s.events : s.events[i].name = "retry"}

IsStatus(o, status) == o.kind = "response" /\ o.response.status = status

IsServerError(o) == o.kind = "response" /\ o.response.status >= 500

IsDecodedSuccess(o) == o.kind = "response" /\ Ok(o.response) /\ o.response.json

\* the seconds a Retry-After header advertises (60 when it is absent)
AdvertisedMs(header) ==
    CASE header = "2" -> 2000
      [] header = "0" -> 0
      [] header = "absent" -> 60000

----------------------------------------------------------------------------
(* C1..C10 *)

\* C1: whatever the body of the response, a 401 on the first attempt ends
\* the call after exactly 1 physical attempt, with no retry event, raising an
\* AuthenticationError.  The claim is for every retries >= 0; it is stated
\* here for the calls that have a retry left (retries >= 1).
C1_Unauthorized_NeverRetried ==
    \A c \in DOMAIN calls :
        LET s == calls[c]
        IN  (s.retries >= 1 /\ Len(s.outcomes) >= 1 /\ IsStatus(s.outcomes[1], 401))
            => /\ s.pc = "raised"
               /\ s.fetches = 1
               /\ RetryEvents(s) = {}
               /\ s.result.error.name = "AuthenticationError"

\* C2: when every attempt of a call (retries >= 0) completes with a status
\* >= 500, the call makes exactly retries+1 attempts, the sleep before
\* attempt i+1 is retryDelay * 2^i, and the error raised is the NetworkError
\* built from the last response.
C2_ServerErrors_Exhaust ==
    \A c \in DOMAIN calls :
        LET s == calls[c]
            n == Len(s.outcomes)
        IN  (s.retries >= 0 /\ n >= 1 /\ \A i \in 1 .. n : IsServerError(s.outcomes[i]))
            => /\ n <= s.retries + 1
               /\ \A i \in DOMAIN s.sleeps : s.sleeps[i] = s.retryDelay * Pow2(i - 1)
               /\ n <= s.retries
                    => /\ s.pc \in {"sleeping", "fetching"}
                       /\ Len(s.sleeps) = n
               /\ n = s.retries + 1
                    => /\ s.pc = "raised"
                       /\ s.fetches = s.retries + 1
                       /\ Len(s.sleeps) = s.retries
                       /\ s.result.error =
                             NetworkError(s.outcomes[n].response.status, s.retries)

C2_Witness ==
    \E c \in DOMAIN calls :
        LET s == calls[c]
        IN  /\ s.pc = "raised"
            /\ s.retries = 2
            /\ Len(s.outcomes) = 3
            /\ IsStatus(s.outcomes[1], 500)
            /\ IsStatus(s.outcomes[2], 500)
            /\ IsStatus(s.outcomes[3], 503)
            /\ s.sleeps = <<s.retryDelay, 2 * s.retryDelay>>

\* C3: when the responses of a call are m 429s followed by a success
\* response whose body decodes, the call makes exactly m+1 attempts, sleeps
\* at least the advertised Retry-After (in ms) before each of the attempts
\* 2..m+1, and returns the payload of the success response.
C3_RateLimited_ThenSuccess ==
    \A c \in DOMAIN calls :
        LET s == calls[c]
            n == Len(s.outcomes)
        IN  (/\ n >= 1
             /\ \A i \in 1 .. (n - 1) : IsStatus(s.outcomes[i], 429)
             /\ IsDecodedSuccess(s.outcomes[n]))
            => /\ s.pc = "returned"
               /\ s.fetches = n
               /\ n - 1 <= s.retries
               /\ Len(s.sleeps) = n - 1
               /\ \A i \in 1 .. (n - 1) :
                     s.outcomes[i].response.retryAfter # "date"
                        => s.sleeps[i] >= AdvertisedMs(s.outcomes[i].response.retryAfter)
               /\ s.result.kind = "returned"
               /\ s.result.data = n - 1

C3_Witness ==
    \E c \in DOMAIN calls :
        LET s == calls[c]
        IN  /\ s.pc = "returned"
            /\ s.retries = 2
            /\ s.retryDelay = 500
            /\ Len(s.outcomes) = 3
            /\ IsStatus(s.outcomes[1], 429) /\ s.outcomes[1].response.retryAfter = "2"
            /\ IsStatus(s.outcomes[2], 429) /\ s.outcomes[2].response.retryAfter = "2"
            /\ IsStatus(s.outcomes[3], 200)
            /\ s.sleeps = <<2000, 2000>>

\* C4: when the deadline timer of an attempt fires before the transport call
\* resolves, the call raises the TimeoutError of that attempt, makes no
\* further attempt and emits no retry event for it, whatever retries and the
\* attempt index are.
C4_Timeout_NeverRetried ==
    \A c \in DOMAIN calls :
        LET s == calls[c]
            n == Len(s.outcomes)
        IN  (n >= 1 /\ s.outcomes[n].kind = "timeout")
            => /\ s.pc = "raised"
               /\ s.result.error = TimeoutError(n - 1)
               /\ s.fetches = n
               /\ Len(s.sleeps) = n - 1
               /\ EventsOf(s, n - 1, "retry") = {}

C4_Witness ==
    \E c \in DOMAIN calls :
        LET s == calls[c]
        IN  /\ s.pc = "raised"
            /\ s.retries = 2
            /\ Len(s.outcomes) = 2
            /\ s.outcomes[2].kind = "timeout"
            /\ s.result.error.name = "TimeoutError"

\* C5: a call that is retried k times before it succeeds emits, ignoring
\* rateLimit events, exactly request, k times (error, retry), response,
\* whatever caused each retry (429, status >= 500, transport failure).
C5_EventOrder_OnSuccess ==
    \A c \in DOMAIN calls :
        LET s == calls[c]
        IN  s.pc = "returned"
            => NamesIgnoringRateLimit(s.events) = EventPattern(Len(s.sleeps), "response")

\* C6: every physical attempt emits exactly one event out of {response,
\* error} and no event name more than once, also the final failing attempt
\* and the non-retried failures (400, 401).
C6_OneOutcomeEvent_PerAttempt ==
    \A c \in DOMAIN calls :
        LET s == calls[c]
        IN  \A a \in 0 .. (Len(s.outcomes) - 1) :
               /\ Cardinality(EventsOf(s, a, "response") \cup EventsOf(s, a, "error")) = 1
               /\ \A name \in {"response", "error", "retry", "rateLimit"} :
                     Cardinality(EventsOf(s, a, name)) <= 1

\* C7: a call that ends in failure has emitted exactly one request first,
\* then zero or more (error, retry) pairs, then exactly one final error
\* (rateLimit events aside), and never a second request.  Stated for the
\* calls that made an attempt (retries >= 0).
C7_EventOrder_OnFailure ==
    \A c \in DOMAIN calls :
        LET s == calls[c]
        IN  (s.pc = "raised" /\ s.retries >= 0)
            => NamesIgnoringRateLimit(s.events)
                  = EventPattern(Cardinality(RetryEvents(s)), "error")

\* C8: whenever a call raises an error, an error event carrying that same
\* error object was emitted earlier in the call, on every failure path and
\* for every value of retries.
C8_Raised_WasAnnounced ==
    \A c \in DOMAIN calls :
        LET s == calls[c]
        IN  s.pc = "raised"
            => \E i \in DOMAIN s.events :
                  s.events[i].name = "error" /\ s.events[i].error = s.result.error

\* C9: every call ends by returning a decoded payload or by raising one
\* error of the six taxonomy kinds; in particular a transport failure that
\* exhausts the retries is raised as a Network-kind error.  Stated for the
\* calls whose last attempt failed at the transport level.
C9_Typed_Termination ==
    \A c \in DOMAIN calls :
        LET s == calls[c]
            n == Len(s.outcomes)
        IN  (s.pc \in {"returned", "raised"} /\ n >= 1 /\ s.outcomes[n].kind = "transport")
            => \/ s.result.kind = "returned" /\ s.result.data >= 0
               \/ /\ s.result.kind = "raised"
                  /\ s.result.error.name \in TaxonomyNames
                  /\ s.result.error.name = "NetworkError"

\* C10: for every value of retries and every sequence of outcomes, a call
\* that ends without success raises the classified error of its last
\* attempt, never the generic 'Maximum retries exceeded' error.
C10_LastError_Preserved ==
    \A c \in DOMAIN calls :
        LET s == calls[c]
        IN  s.pc = "raised"
            => /\ s.result.error # MaxRetriesExceeded
               /\ Len(s.outcomes) >= 1
               /\ s.result.error.id = Len(s.outcomes) - 1

----------------------------------------------------------------------------
(* C11..C20 *)

\* C11: in every state of a call the attempt index is at most retries, the
\* call has made at most retries+1 physical attempts and emitted at most
\* retries retry events, and every retry was started at an attempt index
\* below retries (and is followed by one sleep).  The bound on the attempt
\* index and on the retry events is for calls with retries >= 0.
C11_Attempts_Bounded ==
    \A c \in DOMAIN calls :
        LET s == calls[c]
        IN  s.pc # "idle"
            => /\ s.fetches <= s.retries + 1
               /\ \A i \in RetryEvents(s) : s.events[i].at < s.retries
               /\ Len(s.sleeps) = Cardinality(RetryEvents(s))
               /\ s.retries >= 0
                    => /\ s.attempt <= s.retries
                       /\ s.fetches = s.attempt + 1
                       /\ Cardinality(RetryEvents(s)) <= s.retries

C11_Witness ==
    \E c \in DOMAIN calls :
        LET s == calls[c]
        IN  /\ s.retries = 2
            /\ s.attempt = 2
            /\ s.fetches = 3
            /\ Cardinality(RetryEvents(s)) = 2
            /\ s.pc = "raised"

\* C12: once cancel() has been invoked, a call whose transport call is in
\* flight raises without a retry event and without a sleep, and a call
\* started afterwards makes a single attempt, is not retried and never
\* returns a payload.
C12_Cancel_FailsWithoutRetry ==
    [][\A c \in DOMAIN calls :
          /\ (aborted' /\ calls[c].pc = "fetching" /\ calls'[c] # calls[c])
                => /\ calls'[c].pc = "raised"
                   /\ calls'[c].sleeps = calls[c].sleeps
                   /\ RetryEvents(calls'[c]) = RetryEvents(calls[c])
          /\ (aborted /\ calls[c].pc = "idle" /\ calls'[c].pc # "idle")
                => \/ calls'[c].pc = "fetching" /\ calls'[c].fetches = 1
                   \/ calls'[c].pc = "raised"
          /\ (aborted /\ calls'[c].pc = "returned") => calls[c].pc = "returned"
      ]_vars

C19_RateLimit_Delay ==
    \A c \in DOMAIN calls :
        LET s == calls[c]
        IN  \A i \in DOMAIN s.outcomes :
               (IsStatus(s.outcomes[i], 429) /\ i - 1 < s.retries)
               => LET header == s.outcomes[i].response.retryAfter
                      backoff == s.retryDelay * Pow2(i - 1)
                      rl == EventsOf(s, i - 1, "rateLimit")
                      rt == EventsOf(s, i - 1, "retry")
                  IN  /\ Cardinality(rl) = 1
                      /\ Cardinality(rt) = 1
                      /\ \A x \in rl, y \in rt : y = x + 1 /\ s.events[y].delay = s.sleeps[i]
                      /\ s.sleeps[i] >= backoff
                      /\ header # "date"
                           => s.sleeps[i] = IF AdvertisedMs(header) >= backoff
                                            THEN AdvertisedMs(header) ELSE backoff

\* C20: an attempt that ends in a ValidationError (status 400) or in an
\* AbortError is never retried: the call emits error and raises that error
\* at once, with no retry event and no sleep, whatever attempts remain.
C20_ValidationAbort_NeverRetried ==
    \A c \in DOMAIN calls :
        LET s == calls[c]
            n == Len(s.outcomes)
        IN  (n >= 1 /\ \/ IsStatus(s.outcomes[n], 400) /\ s.outcomes[n].response.json
                       \/ s.outcomes[n].kind = "abort"
                       \/ s.outcomes[n].kind = "bodyabort" /\ Ok(s.outcomes[n].response))
            => /\ s.pc = "raised"
               /\ s.result.error = IF s.outcomes[n].kind = "response"
                                   THEN ValidationError(n - 1) ELSE AbortError(n - 1)
               /\ \E i \in EventsOf(s, n - 1, "error") : s.events[i].error = s.result.error
               /\ EventsOf(s, n - 1, "retry") = {}
               /\ Len(s.sleeps) = n - 1
               /\ s.fetches = n

C20_Witness ==
    \E c \in DOMAIN calls :
        LET s == calls[c]
        IN  /\ s.retries = 2
            /\ Len(s.outcomes) = 2
            /\ IsStatus(s.outcomes[2], 400) /\ s.outcomes[2].response.json
            /\ s.pc = "raised"
            /\ s.result.error.name = "ValidationError"

\* the handlers of a sequence, as a set
Range(hs) == {hs[i] : i \in DOMAIN hs}

\* C17: an emission invokes every handler registered for the event name
\* exactly once, in registration order, also after a handler that raised;
\* every emit of a call is such an emission for the event it emitted, and
\* a call whose last attempt got a decodable success returns it whatever
\* its handlers did.
C17_Emit_InvokesAll ==
    \A c \in DOMAIN calls :
        LET s == calls[c]
        IN  /\ Len(s.emissions) = Len(s.events)
            /\ (s.pc \in {"returned", "raised"} /\ s.outcomes # <<>>
                  /\ IsDecodedSuccess(s.outcomes[Len(s.outcomes)]))
                 => s.pc = "returned"
            /\ \A i \in DOMAIN s.emissions :
                  LET em == s.emissions[i]
                  IN  /\ em.name = s.events[i].name
                      /\ Len(em.called) = Len(em.registered)
                      /\ \A j \in DOMAIN em.registered :
                            /\ em.called[j].handler = em.registered[j]
                            /\ em.called[j].threw = (em.registered[j] \in ThrowingHandlers)

C17_Witness ==
    \E c \in DOMAIN calls :
        LET s == calls[c]
        IN  /\ s.pc = "returned"
            /\ \E i \in DOMAIN s.emissions :
                  LET em == s.emissions[i]
                  IN  /\ em.registered = <<2, 1, 2>>
                      /\ Len(em.called) = 3
                      /\ em.called[1].threw
                      /\ em.called[2].handler = 1

\* C18: on(event, h) appends h to the end of the sequence of that event,
\* also when h is registered already; off(event, h) removes the first
\* occurrence of h only and is a no-op when h is not registered; both leave
\* the order of the other handlers and the other event names unchanged.
C18_OnOff_Registry ==
    LET event == lastOp.event
        h == lastOp.handler
        old == lastOp.before[event]
        new == eventHandlers[event]
    IN  /\ lastOp.op # "none"
             => \A name \in EventNames \ {event} :
                   eventHandlers[name] = lastOp.before[name]
        /\ lastOp.op = "on"
             => /\ Len(new) = Len(old) + 1
                /\ new[Len(new)] = h
                /\ \A j \in DOMAIN old : new[j] = old[j]
        /\ (lastOp.op = "off" /\ h \notin Range(old)) => new = old
        /\ (lastOp.op = "off" /\ h \in Range(old))
             => \E k \in DOMAIN old :
                   /\ old[k] = h
                   /\ \A j \in 1 .. (k - 1) : old[j] # h /\ new[j] = old[j]
                   /\ Len(new) = Len(old) - 1
                   /\ \A j \in k .. Len(new) : new[j] = old[j + 1]

C18_Witness ==
    /\ lastOp.op = "off"
    /\ lastOp.event = "error"
    /\ lastOp.handler = 1
    /\ lastOp.before["error"] = <<1, 2, 1>>
    /\ eventHandlers["error"] = <<2, 1>>
    /\ eventHandlers["request"] # <<>>

\* the timeout of a configuration is absent or within [1000, 300000]
TimeoutAcceptable(timeout) ==
    timeout.given => (timeout.ms >= 1000 /\ timeout.ms <= 300000)

\* C15: construction succeeds if and only if the credential matches
\* sk_(live|test)_ plus 32 alphanumerics, the project id matches proj_ plus
\* 24 alphanumerics, and the timeout, whenever one is supplied (0 included),
\* lies in [1000, 300000].  Stated for the configurations whose base URL is
\* absent or well-formed.
C15_Construction_Iff_Valid ==
    (instance.phase \in {"constructed", "failed"} /\ instance.config.baseUrl # "not a url")
    => (instance.phase = "constructed"
          <=> /\ MatchesApiKey(instance.config.apiKey)
              /\ MatchesProjectId(instance.config.projectId)
              /\ TimeoutAcceptable(instance.config.timeout))

\* C16: every configuration violation detected at construction, a base URL
\* that is not a well-formed absolute URL included, raises a
\* ConfigurationError before any network activity and leaves no instance.
C16_Violation_Is_ConfigurationError ==
    LET config == instance.config
    IN  (/\ instance.phase \in {"constructed", "failed"}
         /\ \/ ~MatchesApiKey(config.apiKey)
            \/ ~MatchesProjectId(config.projectId)
            \/ config.baseUrl = "not a url"
            \/ (config.timeout.given /\ config.timeout.ms # 0
                  /\ ~TimeoutAcceptable(config.timeout)))
        => /\ instance.phase = "failed"
           /\ instance.error = "ConfigurationError"
           /\ \A c \in DOMAIN calls : calls[c].fetches = 0

\* a call of enhancePrompt that has been made
Enhanced(s) == s.op = "enhancePrompt" /\ s.pc # "idle"

\* the call was turned away by validation: a ValidationError, with no
\* transport call and no event
RejectedLocally(s) ==
    /\ s.pc = "raised"
    /\ s.result.error.name = "ValidationError"
    /\ s.fetches = 0
    /\ s.events = <<>>

\* the call was handed to the executor: the request event was emitted and
\* a first transport call made
Forwarded(s) == s.fetches >= 1 /\ s.events # <<>> /\ s.events[1].name = "request"

\* C14 as stated: with valid options, enhancePrompt forwards every prompt
\* whose length after trimming lies in (0, 5000], and rejects with
\* ValidationError, no transport call and no event, every prompt that is
\* empty, whitespace-only or longer than 5000 characters after trimming.
C14_Prompt_TrimmedLength ==
    \A c \in DOMAIN calls :
        LET s == calls[c]
        IN  (Enhanced(s) /\ ~OptionsInvalid(s.options))
            => /\ (TrimLength(s.prompt) > 0 /\ TrimLength(s.prompt) <= 5000)
                     => Forwarded(s)
               /\ (TrimLength(s.prompt) = 0 \/ TrimLength(s.prompt) > 5000)
                     => RejectedLocally(s)

\* C14 amended: with valid options, enhancePrompt forwards every prompt
\* whose length before trimming is at most 5000 and whose length after
\* trimming is above 0, and rejects with ValidationError, no transport call
\* and no event, every prompt that is empty, whitespace-only or longer than
\* 5000 characters before trimming.
C14_Prompt_RawLength ==
    \A c \in DOMAIN calls :
        LET s == calls[c]
        IN  (Enhanced(s) /\ ~OptionsInvalid(s.options))
            => /\ (TrimLength(s.prompt) > 0 /\ s.prompt.length <= 5000)
                     => Forwarded(s)
               /\ (TrimLength(s.prompt) = 0 \/ s.prompt.length > 5000)
                     => RejectedLocally(s)

\* a prompt of 5001 characters, one of them trailing whitespace, was
\* rejected although what remains after trimming has 5000 characters
C14_Witness ==
    \E c \in DOMAIN calls :
        /\ Enhanced(calls[c])
        /\ calls[c].prompt = [length |-> 5001, whitespace |-> 1]
        /\ ~OptionsInvalid(calls[c].options)
        /\ RejectedLocally(calls[c])

\* the kind the claim gives a non-success response
ClaimedKind(response) ==
    IF ~response.json THEN "NetworkError"
    ELSE IF response.status = 401 THEN "AuthenticationError"
    ELSE IF response.status = 429 THEN "RateLimitError"
    ELSE IF response.status = 400 THEN "ValidationError"
    ELSE "NetworkError"

\* C21: the error made from a non-success response is, when the body
\* parses, AuthenticationError for 401, RateLimitError for 429,
\* ValidationError for 400 and a NetworkError carrying the status for every
\* other status; when the body does not parse it is a NetworkError carrying
\* the status, for 401, 429 and 400 too.
C21_Error_ByStatus ==
    \A c \in DOMAIN calls :
        LET s == calls[c]
        IN  \A k \in DOMAIN s.outcomes :
               LET o == s.outcomes[k]
               IN  (o.kind = "response" /\ ~Ok(o.response))
                   => /\ EventsOf(s, k - 1, "error") # {}
                      /\ \A i \in EventsOf(s, k - 1, "error") :
                            /\ s.events[i].error.name = ClaimedKind(o.response)
                            /\ s.events[i].error.name = "NetworkError"
                                  => s.events[i].error.statusCode = o.response.status

\* a 401 whose body did not parse became a NetworkError carrying 401
C21_Witness ==
    \E c \in DOMAIN calls :
        LET s == calls[c]
        IN  \E k \in DOMAIN s.outcomes :
               /\ s.outcomes[k].kind = "response"
               /\ s.outcomes[k].response.status = 401
               /\ ~s.outcomes[k].response.json
               /\ \E i \in EventsOf(s, k - 1, "error") :
                     /\ s.events[i].error.name = "NetworkError"
                     /\ s.events[i].error.statusCode = 401

\* the delay a call owes to one of its own attempt outcomes
OwnDelay(retryDelay, i, o) ==
    IF IsStatus(o, 429)
    THEN MathMax(AdvertisedMs(o.response.retryAfter), retryDelay * (2 ^ i))
    ELSE retryDelay * (2 ^ i)

\* the class of the error a call owes to its own last attempt outcome
OwnFailure(o) ==
    IF o.kind = "abort" THEN "AbortError"
    ELSE IF o.kind = "transport" THEN "TypeError"
    ELSE ClaimedKind(o.response)

\* C22: with two calls in progress on one instance, under every
\* interleaving the attempt count, the retry delays and the final result of
\* a call are a function of its own options and attempt outcomes (an abort
\* by the shared signal being one of them), whatever the other call did.
C22_Calls_Independent ==
    \A c \in DOMAIN calls :
        LET s == calls[c]
            n == Len(s.outcomes)
        IN  s.pc # "idle"
            => /\ s.fetches = IF s.pc = "fetching" THEN n + 1 ELSE n
               /\ s.attempt = IF s.pc = "fetching" THEN n ELSE n - 1
               /\ Len(s.sleeps) = IF s.pc \in {"returned", "raised"} THEN n - 1 ELSE n
               /\ \A k \in DOMAIN s.sleeps :
                     s.sleeps[k] = OwnDelay(s.retryDelay, k - 1, s.outcomes[k])
               /\ s.pc = "returned"
                     => IsDecodedSuccess(s.outcomes[n]) /\ s.result.data = n - 1
               /\ s.pc = "raised"
                     => /\ s.result.error.id = n - 1
                        /\ s.result.error.name = OwnFailure(s.outcomes[n])

\* both calls are in progress at once, at different attempt indexes: one
\* sleeps after its first attempt while the other runs its second
C22_Witness ==
    /\ DOMAIN calls = {1, 2}
    /\ calls[1].pc = "sleeping" /\ calls[1].attempt = 0
    /\ IsStatus(calls[1].outcomes[1], 500)
    /\ calls[2].pc = "fetching" /\ calls[2].attempt = 1
    /\ IsStatus(calls[2].outcomes[1], 429)
    /\ calls[1].retryDelay # calls[2].retryDelay

\* C23: a call has at most one transport call in flight; a transport call
\* is started only by a call that has none in flight and is either new or
\* at the end of its backoff sleep, never by the step that completes the
\* attempt before it.
C23_One_Attempt_InFlight ==
    [][\A c \in DOMAIN calls :
          /\ calls'[c].inflight <= 1
          /\ calls'[c].fetches # calls[c].fetches
                => /\ calls[c].pc \in {"idle", "sleeping"}
                   /\ calls[c].inflight = 0
                   /\ calls'[c].fetches = calls[c].fetches + 1
                   /\ Len(calls[c].outcomes) = calls[c].fetches
                   /\ Len(calls[c].sleeps) = calls[c].fetches]_vars

\* the second attempt of a call is in flight, after the first one failed
\* and the sleep that followed it elapsed
C23_Witness ==
    \E c \in DOMAIN calls :
        /\ calls[c].pc = "fetching"
        /\ calls[c].attempt = 1
        /\ calls[c].inflight = 1
        /\ Len(calls[c].sleeps) = 1
        /\ calls[c].outcomes[1].kind = "transport"

Terminal(s) == s.pc \in {"returned", "raised"}

OptionOutOfRange(options) ==
    \/ /\ options.maxSuggestions.given
       /\ (options.maxSuggestions.value < 1 \/ options.maxSuggestions.value > 10)
    \/ /\ options.categories.given
       /\ \E cat \in options.categories.items : cat \notin ValidCategories

\* C25: enhancePrompt raises a ValidationError with no transport call
\* whenever maxSuggestions is supplied outside [1, 10] (0 and negative
\* values included) or categories holds a value outside the enum, and
\* forwards only when every supplied option is in range.  Stated for
\* prompts that pass the prompt checks.
C25_Options_Validated ==
    \A c \in DOMAIN calls :
        LET s == calls[c]
        IN  (Enhanced(s) /\ ~PromptInvalid(s.prompt))
            => /\ OptionOutOfRange(s.options) => RejectedLocally(s)
               /\ Forwarded(s) => ~OptionOutOfRange(s.options)

\* C26: the backoff sleep is cancellable: a call that is sleeping between
\* attempts when the signal is aborted fails in that step, without waiting
\* for the rest of the delay and without another transport call.
C26_Sleep_Cancellable ==
    [][\A c \in DOMAIN calls :
          (calls[c].pc = "sleeping" /\ aborted')
          => /\ calls'[c].pc = "raised"
             /\ calls'[c].fetches = calls[c].fetches]_vars

\* a completed response the claim lets the call retry
RetryableStatus(status) == status = 429 \/ status >= 500

\* C27: an attempt that completes with a non-success status other than 429
\* and below 500 ends the call: no further attempt, no retry event, the
\* classified error raised, whatever the attempts that remain.  Stated for
\* responses whose body parses.
C27_OtherStatus_NeverRetried ==
    \A c \in DOMAIN calls :
        LET s == calls[c]
        IN  \A k \in DOMAIN s.outcomes :
               LET o == s.outcomes[k]
               IN  (/\ o.kind = "response"
                    /\ o.response.json
                    /\ ~Ok(o.response)
                    /\ ~RetryableStatus(o.response.status))
                   => /\ k = Len(s.outcomes)
                      /\ s.pc = "raised"
                      /\ s.fetches = k
                      /\ EventsOf(s, k - 1, "retry") = {}
                      /\ s.result.error.name = ClaimedKind(o.response)
                      /\ s.result.error.statusCode = o.response.status

\* C28: a transport failure on attempt index i < retries is retried after
\* exactly retryDelay * 2^i, the backoff of a status >= 500; on attempt
\* index i = retries it ends the call with that failure raised.
C28_TransportFailure_Backoff ==
    \A c \in DOMAIN calls :
        LET s == calls[c]
        IN  \A k \in DOMAIN s.outcomes :
               s.outcomes[k].kind = "transport"
               => /\ (k - 1 < s.retries)
                        => /\ Len(s.sleeps) >= k
                           /\ s.sleeps[k] = s.retryDelay * (2 ^ (k - 1))
                           /\ \E i \in EventsOf(s, k - 1, "retry") :
                                 s.events[i].delay = s.retryDelay * (2 ^ (k - 1))
                  /\ (k - 1 = s.retries)
                        => /\ k = Len(s.outcomes)
                           /\ s.pc = "raised"
                           /\ s.result.error.name = "TypeError"
                           /\ s.result.error.id = k - 1
                           /\ EventsOf(s, k - 1, "retry") = {}

\* three transport failures in a row with retries = 2: two sleeps of
\* retryDelay and 2 * retryDelay, then the failure raised
C28_Witness ==
    \E c \in DOMAIN calls :
        LET s == calls[c]
        IN  /\ s.retries = 2
            /\ Len(s.outcomes) = 3
            /\ \A k \in 1 .. 3 : s.outcomes[k].kind = "transport"
            /\ s.sleeps = <<s.retryDelay, 2 * s.retryDelay>>
            /\ s.pc = "raised"

\* C29: an attempt that completes with a success status ends the call in
\* Succeeded: exactly one response event with that status, no error event
\* for the attempt, and the payload returned.
C29_Success_Returns ==
    \A c \in DOMAIN calls :
        LET s == calls[c]
        IN  \A k \in DOMAIN s.outcomes :
               LET o == s.outcomes[k]
               IN  (o.kind = "response" /\ Ok(o.response))
                   => /\ k = Len(s.outcomes)
                      /\ s.pc = "returned"
                      /\ s.result.data = k - 1
                      /\ Cardinality(EventsOf(s, k - 1, "response")) = 1
                      /\ \A i \in EventsOf(s, k - 1, "response") :
                            s.events[i].status = o.response.status
                      /\ EventsOf(s, k - 1, "error") = {}

\* C30: the configuration of an instance is fixed at construction: whatever
\* the caller does afterwards with the config object and headers map it
\* passed in, or with an object returned by getConfig, and whatever request,
\* on, off and cancel calls are made, a later request reads the timeout and
\* extra headers the instance was built with.
C30_Config_Immutable ==
    heap.used.made => heap.used = heap.built

C32_Attempts_Per_Operation ==
    \A c \in DOMAIN calls :
        LET s == calls[c]
        IN  /\ s.op = "enhancePrompt"
                 => /\ s.fetches <= 4
                    /\ Len(s.outcomes) <= 4
                    /\ s.fetches >= 1 => (s.retries = 3 /\ s.retryDelay = 1000)
            /\ s.op = "testConnection"
                 => /\ s.fetches <= 2
                    /\ Len(s.outcomes) <= 2
                    /\ s.retries = 1

\* an enhancePrompt call whose four attempts all failed in a retryable way
C32_Witness ==
    \E c \in DOMAIN calls :
        LET s == calls[c]
        IN  /\ s.op = "enhancePrompt"
            /\ s.fetches = 4
            /\ s.pc = "raised"
            /\ Len(s.sleeps) = 3
            /\ \A k \in 1 .. 4 : IsServerError(s.outcomes[k])

\* C33: the retry events of a call carry the attempt numbers 1, 2, ..., k
\* in that order, each with maxAttempts = retries + 1 and an attempt number
\* below it; the n-th retry event is emitted by the n-th attempt, after its
\* outcome and before the attempt that follows starts.
C33_Retry_Numbering ==
    \A c \in DOMAIN calls :
        LET s == calls[c]
        IN  /\ Cardinality(RetryEvents(s)) = Len(s.sleeps)
            /\ s.pc = "fetching" => s.fetches = Cardinality(RetryEvents(s)) + 1
            /\ s.pc = "sleeping" => s.fetches = Cardinality(RetryEvents(s))
            /\ \A i \in RetryEvents(s) :
                  LET n == Cardinality({j \in RetryEvents(s) : j <= i})
                  IN  /\ s.events[i].attemptNo = n
                      /\ s.events[i].maxAttempts = s.retries + 1
                      /\ s.events[i].attemptNo < s.events[i].maxAttempts
                      /\ s.events[i].at = n - 1
                      /\ Len(s.outcomes) >= n
                      /\ s.fetches >= n

\* a call with two retry events, numbered 1 and 2, whose third attempt runs
C33_Witness ==
    \E c \in DOMAIN calls :
        LET s == calls[c]
        IN  /\ Cardinality(RetryEvents(s)) = 2
            /\ s.pc = "fetching"
            /\ s.fetches = 3
            /\ \E i, j \in RetryEvents(s) :
                  i < j /\ s.events[i].attemptNo = 1 /\ s.events[j].attemptNo = 2

\* C34: when a call has returned or raised (a TimeoutError included),
\* nothing it started is outstanding: none of its transport calls is in
\* flight and none of its deadline timers is pending.
C34_Nothing_Outstanding ==
    \A c \in DOMAIN calls :
        Terminal(calls[c]) => (calls[c].inflight = 0 /\ calls[c].timers = 0)

\* C35: when handlers call off() on themselves or on() while their event
\* is being emitted, every handler that was registered when the emission
\* started and was not removed before its turn is invoked exactly once, in
\* registration order.  The handlers here remove nothing but themselves, at
\* their own turn, so the emission has to invoke the whole sequence it
\* started with.
C35_Emit_During_Mutation ==
    \A c \in DOMAIN calls :
        \A i \in DOMAIN calls[c].emissions :
            LET em == calls[c].emissions[i]
            IN  /\ Len(em.called) = Len(em.registered)
                /\ \A j \in DOMAIN em.registered :
                      em.called[j].handler = em.registered[j]

\* an attempt whose response had status 429
Is429(o) == o.kind \in {"response", "bodyabort"} /\ o.response.status = 429

\* the rateLimit events of a call follow its 429 attempts: one for each 429
\* that is retried, right before the retry event of the attempt, none for
\* any other attempt
RateLimitEventsFollow429(s) ==
    \A k \in DOMAIN s.outcomes :
        LET limited == EventsOf(s, k - 1, "rateLimit")
            retried == EventsOf(s, k - 1, "retry")
        IN  IF Is429(s.outcomes[k]) /\ k - 1 < s.retries
            THEN /\ Cardinality(limited) = 1
                 /\ Cardinality(retried) = 1
                 /\ \A i \in limited : i + 1 \in retried
            ELSE limited = {}

\* C36 as stated: one rateLimit event for each 429 that is retried, right
\* before its retry event, and none otherwise; a 429 on the last allowed
\* attempt raises the RateLimitError of that attempt.
C36_RateLimit_Events ==
    \A c \in DOMAIN calls :
        LET s == calls[c]
        IN  /\ RateLimitEventsFollow429(s)
            /\ \A k \in DOMAIN s.outcomes :
                  (s.outcomes[k].kind = "response" /\ Is429(s.outcomes[k])
                     /\ k - 1 = s.retries)
                  => /\ s.pc = "raised"
                     /\ s.result.error.name = "RateLimitError"
                     /\ s.result.error.id = k - 1

\* C36 amended: the same for the events; a 429 on the last allowed attempt
\* raises the error made from that response: the RateLimitError when the
\* body parses, the NetworkError carrying 429 when it does not.
C36_RateLimit_Events_Classified ==
    \A c \in DOMAIN calls :
        LET s == calls[c]
        IN  /\ RateLimitEventsFollow429(s)
            /\ \A k \in DOMAIN s.outcomes :
                  (s.outcomes[k].kind = "response" /\ Is429(s.outcomes[k])
                     /\ k - 1 = s.retries)
                  => /\ s.pc = "raised"
                     /\ s.result.error.name = ClaimedKind(s.outcomes[k].response)
                     /\ s.result.error.statusCode = 429
                     /\ s.result.error.id = k - 1

\* a 429 that was retried with its rateLimit event, then a 429 with an
\* unparseable body on the last allowed attempt, raised as a NetworkError
C36_Witness ==
    \E c \in DOMAIN calls :
        LET s == calls[c]
        IN  /\ s.retries = 1
            /\ Len(s.outcomes) = 2
            /\ s.outcomes[1].kind = "response" /\ Is429(s.outcomes[1])
            /\ s.outcomes[2].kind = "response" /\ Is429(s.outcomes[2])
            /\ ~s.outcomes[2].response.json
            /\ Cardinality(EventsOf(s, 0, "rateLimit")) = 1
            /\ EventsOf(s, 1, "rateLimit") = {}
            /\ s.pc = "raised"
            /\ s.result.error.name = "NetworkError"

====
